---------------------------- MODULE Spec2Model ----------------------------
(***************************************************************************)
(* Google Photos Clipboard Fix: the content script's acquisition-and-     *)
(* delivery pipeline (single-slot blob cache, strategies A/B/C, eager and *)
(* promise-typed clipboard writes, the context-menu focus wait) as a      *)
(* state machine.  Every await of the script is one step of a task.       *)
(***************************************************************************)
EXTENDS Integers, Sequences, FiniteSets, TLC

Null == "null"

(***************************************************************************)
(* Strings are sequences of one-character strings.  "G" abbreviates the   *)
(* prefix https://lh3.googleusercontent.com/ and "X" the prefix of an     *)
(* image hosted elsewhere; neither holds an "=".  The two characters      *)
(* U+2028 and U+2029 are written by their escapes: one element each.      *)
(***************************************************************************)
Digits == {"0", "1", "2", "3", "4", "5", "6", "7", "8", "9"}

\* U+2028 LINE SEPARATOR and U+2029 PARAGRAPH SEPARATOR.
LS == "\\u2028"

PS == "\\u2029"

\* The characters the "." of a regular expression without the s flag does
\* not match: LF, CR, U+2028 and U+2029.
LineTerminators == {"\n", "\r", LS, PS}

SuffixW == <<"=", "w", "2", "0", "4", "8", "-", "h", "2", "0", "4", "8", "-", "n", "o">>

SuffixS == <<"=", "s", "2", "0", "4", "8", "-", "n", "o">>

\* String.prototype.includes for a two-character needle.
Includes2(s, a, b) == \E i \in 1..(Len(s) - 1) : s[i] = a /\ s[i + 1] = b

Includes1(s, a) == \E i \in 1..Len(s) : s[i] = a

\* The positions where /=<c>\d+.*$/ matches: "=", c, a digit, and no line
\* terminator up to the end of the string ("." does not match one).
SizeMatches(s, c) ==
    {i \in 1..(Len(s) - 2) :
        /\ s[i] = "="
        /\ s[i + 1] = c
        /\ s[i + 2] \in Digits
        /\ \A j \in (i + 2)..Len(s) : s[j] \notin LineTerminators}

Min(S) == CHOOSE x \in S : \A y \in S : x <= y

\* url.replace(/=<c>\d+.*$/, suffix): the leftmost match to the end of the
\* string is replaced; with no match the string is returned as it is.
ReplaceSize(s, c, suffix) ==
    IF SizeMatches(s, c) = {} THEN s
    ELSE SubSeq(s, 1, Min(SizeMatches(s, c)) - 1) \o suffix

upgradeUrl(url) ==
    IF Includes2(url, "=", "w") THEN ReplaceSize(url, "w", SuffixW)
    ELSE IF Includes2(url, "=", "s") THEN ReplaceSize(url, "s", SuffixS)
    ELSE IF Includes1(url, "=") THEN url
    ELSE url \o SuffixW

(***************************************************************************)
(* The host page.  location.pathname selects what is displayed: "/" shows *)
(* no Google-hosted image wider than 100 px, "/a" shows photo imgA and    *)
(* "/b" shows photo imgB.  ext is an <img> hosted elsewhere.              *)
(***************************************************************************)
Paths == {"/", "/a", "/b"}

Nodes == {"body", "viewer", "imgA", "imgB", "ext"}

Parent(n) ==
    CASE n = "body" -> Null
      [] n = "viewer" -> "body"
      [] n = "imgA" -> "viewer"
      [] n = "imgB" -> "viewer"
      [] n = "ext" -> "body"
      [] OTHER -> Null

TagName(n) == IF n \in {"imgA", "imgB", "ext"} THEN "IMG" ELSE "DIV"

Src(n) ==
    CASE n = "imgA" -> <<"G", "a", "=", "w", "4">>
      [] n = "imgB" -> <<"G", "b", "=", "s", "9">>
      [] n = "ext" -> <<"X", "e">>
      [] OTHER -> <<>>

\* el.src.includes('googleusercontent.com') || el.src.includes('ggpht.com')
GoogleHosted(n) == Includes1(Src(n), "G")

\* getBoundingClientRect().width and .height of an image under a pathname.
RectWidth(n, p) ==
    CASE n = "imgA" /\ p = "/a" -> 800
      [] n = "imgB" /\ p = "/b" -> 800
      [] n = "ext" -> 16
      [] OTHER -> 0

RectHeight(n, p) ==
    CASE n = "imgA" /\ p = "/a" -> 600
      [] n = "imgB" /\ p = "/b" -> 600
      [] n = "ext" -> 16
      [] OTHER -> 0

\* The nodes a pointer event can hit under a pathname.
Visible(p) == {n \in Nodes : TagName(n) # "IMG" \/ RectWidth(n, p) > 0}

WalkLimit == 15

RECURSIVE WalkUp(_, _)
\* for (i = 0; i < 15 && el; i++): the first Google-hosted IMG among the
\* element and its ancestors, Null when the walk ends without one.
WalkUp(el, i) ==
    IF i >= WalkLimit \/ el = Null THEN Null
    ELSE IF TagName(el) = "IMG" /\ Src(el) # <<>> /\ GoogleHosted(el) THEN el
    ELSE WalkUp(Parent(el), i + 1)

\* The fallback: the largest Google-hosted image wider than 100 px.
MinWidth == 100

LargestImage(p) ==
    LET cand == {n \in Nodes : /\ TagName(n) = "IMG"
                               /\ GoogleHosted(n)
                               /\ RectWidth(n, p) > MinWidth
                               /\ RectWidth(n, p) * RectHeight(n, p) > 0}
    IN IF cand = {} THEN Null
       ELSE CHOOSE n \in cand : \A m \in cand :
              RectWidth(n, p) * RectHeight(n, p) >= RectWidth(m, p) * RectHeight(m, p)

findImageElement(element, p) ==
    IF WalkUp(element, 0) # Null THEN WalkUp(element, 0) ELSE LargestImage(p)

\* A missing URL (null, undefined): the empty string, falsy like them.
NoUrl == <<>>

getUrlFromElement(imgEl) ==
    IF imgEl = Null \/ Src(imgEl) = <<>> THEN NoUrl ELSE upgradeUrl(Src(imgEl))

\* findImageElement and getUrlFromElement over the page's nodes, tabulated:
\* the actions look their calls up here.
ImageFrom == [element \in Nodes, p \in Paths |-> findImageElement(element, p)]

UrlFrom == [imgEl \in Nodes \cup {Null} |-> getUrlFromElement(imgEl)]

(***************************************************************************)
(* Blobs.  A blob records what it was acquired for and how: the URL the   *)
(* acquisition was started with, the element read (strategy A), the       *)
(* strategy, its MIME type and whether ensurePng re-encoded it.           *)
(***************************************************************************)
NoBlob == [for |-> NoUrl, el |-> Null, via |-> "none", type |-> "none", enc |-> "none",
           empty |-> TRUE]

Png == "image/png"

BlobTypes == {Png, "image/jpeg"}

Blob(url, el, via, type) ==
    [for |-> url, el |-> el, via |-> via, type |-> type, enc |-> "orig", empty |-> FALSE]

Ev(m, ev) == [m |-> m, ev |-> ev]

AllFailed == "All fetch methods failed"

(***************************************************************************)
(* Tasks: one per running async invocation (prefetch, the keydown         *)
(* handler, the context-menu handler, or a bare fetchImageBlob call).     *)
(* st is the await the invocation is suspended at.                        *)
(***************************************************************************)
MaxTasks == 2

MaxDeliveries == 1

MaxTimers == 2

Slots == 1..MaxTasks

VARIABLES cachedBlob, cachedUrl, targetImgElement, lastPath, path, navTimers,
          focused, tasks

vars == <<cachedBlob, cachedUrl, targetImgElement, lastPath, path, navTimers,
          focused, tasks>>

cacheVars == <<cachedBlob, cachedUrl, targetImgElement>>

pageVars == <<lastPath, path, navTimers, focused>>

IdleTask ==
    [kind |-> "idle", st |-> "idle", imgEl |-> Null, url |-> NoUrl, trace |-> <<>>,
     blob |-> NoBlob, mode |-> "none", elapsed |-> 0, src |-> NoUrl, writes |-> 0,
     fetches |-> 0, toast |-> "none", err |-> "none", resp |-> <<>>, out |-> "none",
     unhandled |-> FALSE]

Free(t) == tasks[t].st \in {"idle", "done"}

\* The callbacks outstanding at once are bounded by the slots: the running
\* invocations and the armed navigation timers.
HasRoom(timers) == Cardinality({t \in Slots : ~Free(t)}) + timers < MaxTasks

HasFree == HasRoom(navTimers)

FreeSlot == Min({t \in Slots : Free(t)})

\* The payload promise of a promise-based write that has already settled:
\* the keydown handler has returned, the async function of lines 277-280
\* still runs and nothing awaits it.
Detached(task) == task.mode = "detached"

\* The end of a turn of the script.  showToast (lines 295-311) removes and
\* appends children of document.body, so a turn that has shown a toast ends
\* with the MutationObserver callback: a pathname other than lastPath is
\* recorded and the 800 ms timer armed (at most MaxTimers at once).
AfterTurn(shown) ==
    /\ IF shown /\ path # lastPath
       THEN /\ navTimers < MaxTimers
            /\ lastPath' = path
            /\ navTimers' = navTimers + 1
       ELSE UNCHANGED <<lastPath, navTimers>>
    /\ UNCHANGED <<path, focused>>

\* A turn of the invocation in slot t that leaves it as next; a toast it
\* has shown is the one it now carries.
Turn(t, next) ==
    /\ tasks' = [tasks EXCEPT ![t] = next]
    /\ AfterTurn(tasks'[t].toast # tasks[t].toast)

\* The first turn of a new invocation, up to its first await.
FirstTurn(started) ==
    /\ tasks' = [tasks EXCEPT ![FreeSlot] = started]
    /\ AfterTurn(tasks'[FreeSlot].toast # "none")

\* The deliveries (keydown, context menu) with a promise still pending.
Delivering == {t \in Slots : tasks[t].kind \in {"keydown", "ctx"} /\ tasks[t].st # "done"}

CanDeliver == HasFree /\ Cardinality(Delivering) < MaxDeliveries

NewTask(kind, imgEl, url) ==
    [IdleTask EXCEPT !.kind = kind, !.st = "new", !.imgEl = imgEl, !.url = url]

(***************************************************************************)
(* The three acquisition strategies.  Each is one promise: its inputs are *)
(* what the browser and the background worker do, its value a result      *)
(* {ok, blob, err}.                                                       *)
(***************************************************************************)
Resolved(blob) == [ok |-> TRUE, blob |-> blob, err |-> "none"]

Rejected(err) == [ok |-> FALSE, blob |-> NoBlob, err |-> err]

\* Method A: canvas copy of the on-page <img>; toBlob always encodes PNG.
grabFromElement(imgEl, complete, naturalWidth, tainted, blobNull) ==
    IF imgEl = Null \/ ~complete \/ naturalWidth = 0
    THEN Rejected("Image element not ready")
    ELSE IF tainted THEN Rejected("SecurityError")
    ELSE IF blobNull THEN Rejected("toBlob null")
    ELSE Resolved(Blob(NoUrl, imgEl, "A", Png))

\* Method B: the background worker's answer to {action: 'fetchImage', url},
\* then fetch(resp.dataUrl).blob(), whose type is the data URL's.
fetchViaBackground(url, lastError, present, success, type, convOk) ==
    IF lastError THEN Rejected("lastError")
    ELSE IF ~present THEN Rejected("No response from background")
    ELSE IF success
         THEN IF convOk THEN Resolved(Blob(url, Null, "B", type))
              ELSE Rejected("TypeError")
         ELSE Rejected("resp.error")

\* Method C: new Image with crossOrigin = 'anonymous', then the canvas copy.
fetchViaDomCanvas(url, loaded, tainted, blobNull) ==
    IF ~loaded THEN Rejected("Image load failed")
    ELSE IF tainted THEN Rejected("SecurityError")
    ELSE IF blobNull THEN Rejected("toBlob null")
    ELSE Resolved(Blob(url, Null, "C", Png))

\* Mutant: the blob is passed on as it is, whatever its type.
ensurePngSkipped(blob, decodable) == Resolved(blob)

\* ensurePng: a PNG blob is returned as it is; any other is decoded and
\* re-encoded, which throws when it is no decodable image.
ensurePng(blob, decodable) ==
    IF blob.type = Png THEN Resolved(blob)
    ELSE IF ~decodable THEN Rejected("InvalidStateError")
    ELSE Resolved([blob EXCEPT !.type = Png, !.enc = "reenc"])

(***************************************************************************)
(* fetchImageBlob(imgEl, url): A when imgEl, then B when url, then C when *)
(* url; the first success returns, exhaustion throws AllFailed.           *)
(***************************************************************************)
\* Mutant: B is started after A whether or not there is a URL.
NextMethodNoUrlCheck(imgEl, url, after) ==
    CASE after = "start" -> IF imgEl # Null THEN "A" ELSE IF url # NoUrl THEN "B" ELSE "none"
      [] after = "A" -> "B"
      [] after = "B" -> IF url # NoUrl THEN "C" ELSE "none"
      [] OTHER -> "none"

\* Mutant: the canvas read C is tried before the privileged fetch B.
NextMethodCBeforeB(imgEl, url, after) ==
    CASE after = "start" -> IF imgEl # Null THEN "A" ELSE IF url # NoUrl THEN "C" ELSE "none"
      [] after = "A" -> IF url # NoUrl THEN "C" ELSE "none"
      [] after = "C" -> IF url # NoUrl THEN "B" ELSE "none"
      [] OTHER -> "none"

\* The strategy fetchImageBlob starts next, after the strategy that failed
\* ("start": on entry); "none" when it falls through to the throw.
NextMethod(imgEl, url, after) ==
    CASE after = "start" -> IF imgEl # Null THEN "A" ELSE IF url # NoUrl THEN "B" ELSE "none"
      [] after = "A" -> IF url # NoUrl THEN "B" ELSE "none"
      [] after = "B" -> IF url # NoUrl THEN "C" ELSE "none"
      [] OTHER -> "none"

StartStrategy(task, m) ==
    [task EXCEPT !.st = m, !.trace = Append(@, Ev(m, "start"))]

\* navigator.clipboard.write is called with the blob (or promise) in hand.
CallWrite(task) == [task EXCEPT !.st = "write", !.writes = @ + 1]

\* Mutant: the write is called at once whether or not there is focus.
writeToClipboardNoSettle(task, blob, hasFocus) == CallWrite([task EXCEPT !.blob = blob])

\* writeToClipboard(blob) up to its first await: an unfocused document gets
\* window.focus() and the 100 ms settle timer, a focused one the write.
writeToClipboard(task, blob, hasFocus) ==
    IF ~hasFocus THEN [task EXCEPT !.st = "settle", !.blob = blob]
    ELSE CallWrite([task EXCEPT !.blob = blob])

\* A handler that has returned: its locals are gone, what it reported stays.
Finish(task) ==
    [task EXCEPT !.st = "done", !.imgEl = Null, !.blob = NoBlob, !.trace = <<>>,
                 !.src = NoUrl, !.mode = "none",
                 !.url = IF task.kind = "prefetch" THEN @ ELSE NoUrl]

\* The caller's continuation when fetchImageBlob returns a blob: every
\* caller in the script passes it to ensurePng and awaits that.
AfterFetch(task, blob) ==
    IF task.kind = "fetch" THEN [task EXCEPT !.st = "returned", !.blob = blob]
    ELSE [task EXCEPT !.st = "png", !.blob = blob]

\* The caller's continuation when fetchImageBlob or ensurePng throws e.  In
\* the keydown handler the caller is the payload promise (lines 277-280):
\* its rejection goes to the pending write; when the write has settled no
\* reaction is left on the promise and the rejection is unhandled.
AfterThrow(task, e) ==
    CASE task.kind = "fetch" -> [task EXCEPT !.st = "threw", !.err = e]
      [] task.kind = "prefetch" -> Finish([task EXCEPT !.err = e, !.out = "failed"])
      [] task.kind = "keydown" ->
           IF Detached(task) THEN Finish([task EXCEPT !.unhandled = TRUE])
           ELSE [task EXCEPT !.st = "write", !.blob = NoBlob, !.err = e]
      [] OTHER -> Finish([task EXCEPT !.err = e, !.toast = "error",
                                      !.resp = Append(@, FALSE), !.out = "failed"])

\* Mutant: a success does not return; the remaining strategies still run.
SettleNoShortCircuit(task, m, r) ==
    LET logged == [task EXCEPT !.trace = Append(@, Ev(m, IF r.ok THEN "ok" ELSE "fail")),
                               !.blob = IF r.ok THEN [r.blob EXCEPT !.for = task.url] ELSE @]
        next == NextMethod(task.imgEl, task.url, m)
    IN IF next # "none" THEN StartStrategy(logged, next)
       ELSE IF logged.blob # NoBlob THEN AfterFetch(logged, logged.blob)
       ELSE AfterThrow(logged, AllFailed)

\* Mutant: a strategy's own error is rethrown to the caller.
SettleRethrow(task, m, r) ==
    LET logged == [task EXCEPT !.trace = Append(@, Ev(m, IF r.ok THEN "ok" ELSE "fail"))]
    IN IF r.ok THEN AfterFetch(logged, [r.blob EXCEPT !.for = task.url])
       ELSE AfterThrow(logged, r.err)

\* A strategy's promise settles with r inside fetchImageBlob.
Settle(task, m, r) ==
    LET logged == [task EXCEPT !.trace = Append(@, Ev(m, IF r.ok THEN "ok" ELSE "fail"))]
        next == NextMethod(task.imgEl, task.url, m)
    IN IF r.ok THEN AfterFetch(logged, [r.blob EXCEPT !.for = task.url])
       ELSE IF next = "none" THEN AfterThrow(logged, AllFailed)
       ELSE StartStrategy(logged, next)

\* fetchImageBlob(imgEl, url) up to its first await.
FetchStart(task) ==
    LET first == NextMethod(task.imgEl, task.url, "start")
        called == [task EXCEPT !.fetches = @ + 1]
    IN IF first = "none" THEN AfterThrow(called, AllFailed)
       ELSE StartStrategy(called, first)

NaturalWidths == {0, 800}

SettleA(t) ==
    /\ tasks[t].st = "A"
    /\ \E r \in {grabFromElement(tasks[t].imgEl, complete, w, tainted, blobNull) :
                    complete \in BOOLEAN, w \in NaturalWidths,
                    tainted \in BOOLEAN, blobNull \in BOOLEAN} :
          Turn(t, Settle(tasks[t], "A", r))
    /\ UNCHANGED cacheVars

SettleB(t) ==
    /\ tasks[t].st = "B"
    /\ \E r \in {fetchViaBackground(tasks[t].url, lastError, present, success, type, convOk) :
                    lastError \in BOOLEAN, present \in BOOLEAN, success \in BOOLEAN,
                    type \in BlobTypes, convOk \in BOOLEAN} :
          Turn(t, Settle(tasks[t], "B", r))
    /\ UNCHANGED cacheVars

SettleC(t) ==
    /\ tasks[t].st = "C"
    /\ \E r \in {fetchViaDomCanvas(tasks[t].url, loaded, tainted, blobNull) :
                    loaded \in BOOLEAN, tainted \in BOOLEAN, blobNull \in BOOLEAN} :
          Turn(t, Settle(tasks[t], "C", r))
    /\ UNCHANGED cacheVars

(***************************************************************************)
(* prefetch(imgEl, url)                                                   *)
(***************************************************************************)
\* Mutant: prefetch returns early only for an empty reference.
PrefetchSkipEmptyOnly(imgEl, url) == imgEl = Null /\ url = NoUrl

\* The two early returns of prefetch.
PrefetchSkip(imgEl, url) ==
    \/ imgEl = Null /\ url = NoUrl
    \/ url = cachedUrl /\ cachedBlob # NoBlob

\* Mutant: the slot is not emptied when a prefetch starts.
InvalidateKeepsBlob(imgEl, url) == [blob |-> cachedBlob, url |-> url, el |-> imgEl]

\* The cache as prefetch leaves it before it starts fetching.
Invalidate(imgEl, url) == [blob |-> NoBlob, url |-> url, el |-> imgEl]

\* Mutant: the result is stored without the key check at completion.
PrefetchCommitUnchecked(task, png) == png

\* Mutant: the key check at completion is inverted.
PrefetchCommitInverted(task, png) == IF cachedUrl # task.url THEN png ELSE cachedBlob

\* The slot after a prefetch for task.url has its PNG: stored only when
\* the key is still the one this prefetch was started for.
PrefetchCommit(task, png) == IF cachedUrl = task.url THEN png ELSE cachedBlob

\* prefetch up to its first await, as a step on the cache and the tasks.
Prefetch(imgEl, url) ==
    IF PrefetchSkip(imgEl, url) THEN UNCHANGED <<cacheVars, tasks>>
    ELSE /\ HasRoom(navTimers')
         /\ cachedBlob' = Invalidate(imgEl, url).blob
         /\ cachedUrl' = Invalidate(imgEl, url).url
         /\ targetImgElement' = Invalidate(imgEl, url).el
         /\ tasks' = [tasks EXCEPT ![FreeSlot] = FetchStart(NewTask("prefetch", imgEl, url))]

\* onInteract: mousedown, click and contextmenu on a node of the page.
Interact(target) ==
    /\ target \in Visible(path)
    /\ UNCHANGED pageVars
    /\ LET imgEl == ImageFrom[target, path]
       IN IF imgEl # Null THEN Prefetch(imgEl, UrlFrom[imgEl])
          ELSE UNCHANGED <<cacheVars, tasks>>

\* The page changes location.pathname (pushState); the script runs nothing.
Navigate(p) ==
    /\ p # path
    /\ path' = p
    /\ UNCHANGED <<cacheVars, lastPath, navTimers, focused, tasks>>

\* The MutationObserver callback runs for a mutation under document.body
\* that the page makes, or a toast's own removal (line 309).  A timer armed
\* here counts against the slots.
Observe ==
    /\ UNCHANGED <<cacheVars, tasks>>
    /\ path # lastPath => HasFree
    /\ AfterTurn(TRUE)

\* The 800 ms timer fires; a prefetch it starts takes its place.
NavTimer ==
    /\ navTimers > 0
    /\ navTimers' = navTimers - 1
    /\ LET imgEl == ImageFrom["body", path]
       IN IF imgEl # Null THEN Prefetch(imgEl, UrlFrom[imgEl])
          ELSE UNCHANGED <<cacheVars, tasks>>
    /\ UNCHANGED <<lastPath, path, focused>>

\* The document gains or loses input focus.
FocusChange ==
    /\ focused' = ~focused
    /\ UNCHANGED <<cacheVars, lastPath, path, navTimers, tasks>>

(***************************************************************************)
(* Delivery: the keydown handler and the context-menu handler.            *)
(***************************************************************************)
ActiveElement == "body"

\* The URL of the photo on display: what a copy gesture is aimed at.
DisplayedUrl(p) == UrlFrom[ImageFrom[ActiveElement, p]]

\* Mutant: the fetch is awaited first; the write is not called in the
\* keydown turn.
writeWithPromiseDeferred(task) == FetchStart(task)

\* writeWithPromise up to its first await: the payload promise starts
\* fetchImageBlob and navigator.clipboard.write is called with it.
writeWithPromise(task) ==
    [FetchStart(task) EXCEPT !.writes = @ + 1]

\* The keydown handler for Cmd/Ctrl+C up to its first await.
KeydownStart(task) ==
    IF cachedBlob # NoBlob
    THEN writeToClipboard([task EXCEPT !.mode = "eager"], cachedBlob, focused)
    ELSE LET imgEl == IF targetImgElement # Null THEN targetImgElement
                      ELSE ImageFrom[ActiveElement, path]
             url == IF cachedUrl # NoUrl THEN cachedUrl ELSE UrlFrom[imgEl]
         IN IF url = NoUrl /\ imgEl = Null
            THEN Finish([task EXCEPT !.toast = "noimage", !.out = "noimage"])
            ELSE writeWithPromise([task EXCEPT !.mode = "lazy", !.imgEl = imgEl,
                                               !.url = url, !.toast = "fetching"])

Keydown(selection) ==
    /\ IF selection THEN UNCHANGED <<tasks, pageVars>>
       ELSE /\ CanDeliver
            /\ FirstTurn(KeydownStart(NewTask("keydown", Null, NoUrl)))
    /\ UNCHANGED cacheVars

\* message.srcUrl: info.srcUrl of the right-clicked image, or null.
SrcUrls == {NoUrl} \cup {Src(n) : n \in {m \in Nodes : TagName(m) = "IMG"}}

\* The context-menu handler's try block up to its first await, for a
\* message whose srcUrl is srcUrl.
CtxProceed(task, srcUrl) ==
    IF cachedBlob # NoBlob
    THEN writeToClipboard([task EXCEPT !.mode = "eager", !.src = srcUrl], cachedBlob, focused)
    ELSE LET imgEl == IF targetImgElement # Null THEN targetImgElement
                      ELSE ImageFrom["body", path]
             url == IF cachedUrl # NoUrl THEN cachedUrl
                    ELSE IF UrlFrom[imgEl] # NoUrl THEN UrlFrom[imgEl]
                    ELSE srcUrl
         IN FetchStart([task EXCEPT !.mode = "fetch", !.imgEl = imgEl, !.url = url])

PollInterval == 50

FocusTimeout == 2000

MaxLate == 1

\* The message {action: 'copyImageFromContextMenu', srcUrl} arrives.  The
\* handler reads srcUrl only in its try block, so the model draws it there.
CtxMessage ==
    /\ CanDeliver
    /\ \E started \in {IF ~focused
                         THEN [NewTask("ctx", Null, NoUrl) EXCEPT !.st = "focuswait"]
                         ELSE CtxProceed(NewTask("ctx", Null, NoUrl), srcUrl) :
                         srcUrl \in SrcUrls} :
          FirstTurn(started)
    /\ UNCHANGED cacheVars

\* Mutant: on timeout the handler goes on as if focus had been seen.
FocusPollProceeds(task, elapsed, srcUrl) ==
    IF focused \/ elapsed > FocusTimeout
    THEN CtxProceed([task EXCEPT !.elapsed = 0, !.out = "focus"], srcUrl)
    ELSE [task EXCEPT !.elapsed = elapsed]

\* Mutant: the timeout is tested before the focus.
FocusPollTimeoutFirst(task, elapsed, srcUrl) ==
    IF elapsed > FocusTimeout
    THEN Finish([task EXCEPT !.elapsed = elapsed, !.toast = "nofocus",
                             !.resp = Append(@, FALSE), !.out = "timeout"])
    ELSE IF focused THEN CtxProceed([task EXCEPT !.elapsed = 0, !.out = "focus"], srcUrl)
    ELSE [task EXCEPT !.elapsed = elapsed]

\* Mutant: on timeout the result is reported but the interval is not
\* cleared, so the callback keeps running.
FocusPollNotCleared(task, elapsed, srcUrl) ==
    IF focused THEN CtxProceed([task EXCEPT !.elapsed = 0, !.out = "focus"], srcUrl)
    ELSE IF elapsed > FocusTimeout
    THEN [task EXCEPT !.toast = "nofocus", !.resp = <<FALSE>>, !.out = "timeout"]
    ELSE [task EXCEPT !.elapsed = elapsed]

\* One run of the setInterval callback, elapsed ms after the wait began
\* (start is local to the wait: nothing of it is kept once focus is seen).
FocusPoll(task, elapsed, srcUrl) ==
    IF focused THEN CtxProceed([task EXCEPT !.elapsed = 0, !.out = "focus"], srcUrl)
    ELSE IF elapsed > FocusTimeout
    THEN Finish([task EXCEPT !.elapsed = elapsed, !.toast = "nofocus",
                             !.resp = Append(@, FALSE), !.out = "timeout"])
    ELSE [task EXCEPT !.elapsed = elapsed]

Poll(t) ==
    /\ tasks[t].st = "focuswait"
    /\ \E polled \in {FocusPoll(tasks[t], tasks[t].elapsed + PollInterval * (1 + late), srcUrl) :
                         late \in 0..MaxLate, srcUrl \in SrcUrls} :
          Turn(t, polled)
    /\ UNCHANGED cacheVars

\* The continuation after await ensurePng(blob), by caller.
AfterPng(task, png) ==
    CASE task.kind = "prefetch" ->
           Finish([task EXCEPT !.out = IF PrefetchCommit(task, png) = png
                                       THEN "cached" ELSE "discarded"])
      [] task.kind = "keydown" ->
           IF Detached(task) THEN Finish(task)
           ELSE [task EXCEPT !.st = "write", !.blob = png]
      [] OTHER -> writeToClipboard(task, png, focused)

SettlePng(t) ==
    /\ tasks[t].st = "png"
    /\ \E r \in {ensurePng(tasks[t].blob, decodable) : decodable \in BOOLEAN} :
             /\ Turn(t, IF r.ok THEN AfterPng(tasks[t], r.blob)
                         ELSE AfterThrow(tasks[t], r.err))
             /\ cachedBlob' = IF r.ok /\ tasks[t].kind = "prefetch"
                              THEN PrefetchCommit(tasks[t], r.blob) ELSE cachedBlob
    /\ UNCHANGED <<cachedUrl, targetImgElement>>

\* The 100 ms settle timer of writeToClipboard fires: the write is called.
SettleTimer(t) ==
    /\ tasks[t].st = "settle"
    /\ tasks' = [tasks EXCEPT ![t] = CallWrite(@)]
    /\ UNCHANGED <<cacheVars, pageVars>>

\* The payload promise of a promise-based write has not settled.
PayloadPending(task) == task.mode = "lazy" /\ task.st \in {"A", "B", "C", "png"}

\* navigator.clipboard.write has been called and has not settled: the
\* handler awaits it (st = "write"), or awaits it beside its payload.
WritePending(task) == task.st = "write" \/ PayloadPending(task)

\* Mutant: a rejected write is tried once more.
WriteDoneRetry(task, ok) ==
    IF ~ok /\ task.writes < 2 THEN CallWrite(task)
    ELSE Finish([task EXCEPT !.toast = IF ok THEN "copied" ELSE "error",
                             !.err = IF ok THEN "none"
                                     ELSE IF @ # "none" THEN @ ELSE "NotAllowedError",
                             !.out = IF ok THEN "copied" ELSE "failed",
                             !.resp = IF task.kind = "ctx" THEN Append(@, ok) ELSE @])

\* navigator.clipboard.write settles; the handler reports the outcome and
\* returns.  A rejection carries the payload's error when the payload
\* promise rejected, else the browser's.  A payload still pending stays
\* behind, detached.
WriteDone(task, ok) ==
    LET shown == [task EXCEPT !.toast = IF ok THEN "copied" ELSE "error",
                              !.err = IF ok THEN "none"
                                      ELSE IF @ # "none" THEN @ ELSE "NotAllowedError",
                              !.out = IF ok THEN "copied" ELSE "failed"]
    IN IF PayloadPending(task) THEN [shown EXCEPT !.mode = "detached"]
       ELSE Finish(IF task.kind = "ctx" THEN [shown EXCEPT !.resp = Append(@, ok)]
                   ELSE shown)

\* The browser settles the write.  The script tests nothing at this point
\* (lines 260-265, 282-287); the caller shows the toast in the same turn.  The browser can resolve only with the bytes
\* in hand; it can reject at any time, a promise-based write also while
\* its payload is pending.
WriteSettle(t) ==
    /\ WritePending(tasks[t])
    /\ \E ok \in {permitted /\ tasks[t].st = "write" /\ tasks[t].blob # NoBlob :
                      permitted \in BOOLEAN} :
          Turn(t, WriteDone(tasks[t], ok))
    /\ UNCHANGED cacheVars

(***************************************************************************)
(* The content script on a page.                                          *)
(***************************************************************************)
Init ==
    /\ cachedBlob = NoBlob
    /\ cachedUrl = NoUrl
    /\ targetImgElement = Null
    /\ path \in Paths
    /\ lastPath = path
    /\ navTimers = 0
    /\ focused = TRUE
    /\ tasks = [t \in Slots |-> IdleTask]

Next ==
    \/ \E n \in Nodes : Interact(n)
    \/ \E p \in Paths : Navigate(p)
    \/ Observe
    \/ NavTimer
    \/ FocusChange
    \/ \E selection \in BOOLEAN : Keydown(selection)
    \/ CtxMessage
    \/ \E t \in Slots : Poll(t)
    \/ \E t \in Slots : SettleA(t)
    \/ \E t \in Slots : SettleB(t)
    \/ \E t \in Slots : SettleC(t)
    \/ \E t \in Slots : SettlePng(t)
    \/ \E t \in Slots : SettleTimer(t)
    \/ \E t \in Slots : WriteSettle(t)

Spec == Init /\ [][Next]_vars

(***************************************************************************)
(* fetchImageBlob on its own, called with any reference: an element or    *)
(* none, a URL or none.                                                   *)
(***************************************************************************)
RefElements == {Null, "imgA", "imgB"}

RefUrls == {NoUrl, UrlFrom["imgA"], UrlFrom["imgB"], Src("ext")}

InitFetch ==
    /\ cachedBlob = NoBlob
    /\ cachedUrl = NoUrl
    /\ targetImgElement = Null
    /\ path = "/"
    /\ lastPath = path
    /\ navTimers = 0
    /\ focused = TRUE
    /\ tasks \in [Slots -> {FetchStart(NewTask("fetch", el, url)) :
                                el \in RefElements, url \in RefUrls}]

NextFetch ==
    \/ \E t \in Slots : SettleA(t)
    \/ \E t \in Slots : SettleB(t)
    \/ \E t \in Slots : SettleC(t)

SpecFetch == InitFetch /\ [][NextFetch]_vars

(***************************************************************************)
(* The content script where every pending promise settles and every armed *)
(* timer fires: the browser runs each interval and timeout callback, and  *)
(* each strategy, conversion and clipboard write is assumed to settle.    *)
(***************************************************************************)
\* A step of the invocation in slot t: a promise or timer it waits for
\* settles or fires.  st names the one it is suspended at; a keydown
\* handler in lazy mode also has its write pending beside the payload.
Progress(t) ==
    \/ Poll(t)
    \/ SettleA(t)
    \/ SettleB(t)
    \/ SettleC(t)
    \/ SettlePng(t)
    \/ SettleTimer(t)
    \/ WriteSettle(t)

Settles(t) == WF_vars(Progress(t))

\* The PNGs prefetch can store for a target (lines 232-235): read from the
\* element (A), fetched by the worker as PNG or re-encoded from JPEG (B),
\* or copied from a cross-origin image (C).
StoredPngs(n) ==
    {[Blob(NoUrl, n, "A", Png) EXCEPT !.for = UrlFrom[n]],
     Blob(UrlFrom[n], Null, "B", Png),
     [Blob(UrlFrom[n], Null, "B", Png) EXCEPT !.enc = "reenc"],
     Blob(UrlFrom[n], Null, "C", Png)}

\* The states the cache can be in when a delivery begins: never used,
\* keyed with the slot empty (a prefetch pending or failed), or holding a
\* PNG a prefetch stored for its key.
CacheStates ==
    {[blob |-> NoBlob, url |-> NoUrl, el |-> Null]}
    \cup {[blob |-> NoBlob, url |-> UrlFrom[n], el |-> n] : n \in {"imgA", "imgB"}}
    \cup UNION {{[blob |-> png, url |-> UrlFrom[n], el |-> n] : png \in StoredPngs(n)} :
                   n \in {"imgA", "imgB"}}

InitDeliver ==
    /\ \E c \in CacheStates :
          /\ cachedBlob = c.blob
          /\ cachedUrl = c.url
          /\ targetImgElement = c.el
    /\ path \in Paths
    /\ lastPath = path
    /\ navTimers = 0
    /\ focused \in BOOLEAN
    /\ tasks = [t \in Slots |-> IdleTask]

\* The delivery handlers and everything they wait for.
NextDeliver ==
    \/ FocusChange
    \/ \E selection \in BOOLEAN : Keydown(selection)
    \/ CtxMessage
    \/ \E t \in Slots : Poll(t)
    \/ \E t \in Slots : SettleA(t)
    \/ \E t \in Slots : SettleB(t)
    \/ \E t \in Slots : SettleC(t)
    \/ \E t \in Slots : SettlePng(t)
    \/ \E t \in Slots : SettleTimer(t)
    \/ \E t \in Slots : WriteSettle(t)

SpecLive == InitDeliver /\ [][NextDeliver]_vars /\ \A t \in Slots : Settles(t)

(***************************************************************************)
(* The background worker's fetchImage handler (background.js), one task   *)
(* of kind "bg" per request; st is the await it is suspended at.  trace   *)
(* logs each fetch with its status, resp every sendResponse call.         *)
(***************************************************************************)
Statuses == {200, 403, 404}

\* Response.ok
Ok(status) == status >= 200 /\ status <= 299

NoGm == <<"-", "n", "o", "-", "g", "m">>

NoGmAt(s) == {i \in 1..(Len(s) - 5) : SubSeq(s, i, i + 5) = NoGm}

\* url.replace(/-no-gm/, '-no'): the first match only.
AltUrl(url) ==
    IF NoGmAt(url) = {} THEN url
    ELSE SubSeq(url, 1, Min(NoGmAt(url)) - 1) \o <<"-", "n", "o">>
         \o SubSeq(url, Min(NoGmAt(url)) + 6, Len(url))

Success(dataUrl) == [success |-> TRUE, dataUrl |-> dataUrl]

Failure(error) == [success |-> FALSE, error |-> error]

HttpError(status) == "HTTP " \o ToString(status)

sendResponse(task, r) == [task EXCEPT !.resp = Append(@, r)]

\* The outer catch: one failure response, and the handler is over.
BgCatch(task, e) == [sendResponse(task, Failure(e)) EXCEPT !.st = "done", !.err = e]

BgLog(task, m, ev) == [task EXCEPT !.trace = Append(@, Ev(m, ev))]

\* After resp is in hand (lines 48-58): an ok response goes on to the body,
\* a 403 to the URL variant, any other status throws.
AfterResponse(task, m, status) ==
    LET logged == BgLog(task, m, ToString(status))
    IN IF Ok(status) THEN [logged EXCEPT !.st = "blob", !.src = task.url]
       ELSE IF status = 403 THEN [logged EXCEPT !.st = "alt"]
       ELSE BgCatch(logged, HttpError(status))

\* Mutant: the variant's response is not adopted; the 403 stands.
AfterAltNotAdopted(task, status) ==
    BgCatch(BgLog(task, "alt", ToString(status)), HttpError(403))

\* After fetch(altUrl) resolves (lines 52-54).
AfterAlt(task, status) ==
    LET logged == BgLog(task, "alt", ToString(status))
    IN IF Ok(status) THEN [logged EXCEPT !.st = "blob", !.src = AltUrl(task.url)]
       ELSE BgCatch(logged, "HTTP 403 on both URL variants")

\* The FileReader finishes (lines 63-69): load then loadend, or error then
\* loadend; onloadend answers in both cases, with reader.result.
AfterRead(task, ok) ==
    LET logged == BgLog(task, "read", IF ok THEN "ok" ELSE "error")
        answered == IF ok THEN sendResponse(logged, Success(task.blob))
                    ELSE sendResponse(sendResponse(logged, Failure("FileReader error")),
                                      Success(NoBlob))
    IN [answered EXCEPT !.st = "done"]

BgTasks == {t \in Slots : tasks[t].kind = "bg"}

\* chrome.runtime.sendMessage({action: 'fetchImage', url}) of strategy B
\* reaches the worker: the handler starts fetch(url, credentials).
BgReceive(t) ==
    /\ tasks[t].st = "B"
    /\ tasks[t].url # NoUrl
    /\ BgTasks = {}
    /\ HasFree
    /\ tasks' = [tasks EXCEPT ![FreeSlot] =
            [NewTask("bg", Null, tasks[t].url) EXCEPT !.st = "cred"]]
    /\ UNCHANGED <<cacheVars, pageVars>>

\* fetch(url, {credentials: 'include'}) settles.
BgCred(b) ==
    /\ tasks[b].kind = "bg" /\ tasks[b].st = "cred"
    /\ \/ tasks' = [tasks EXCEPT ![b] = [BgLog(@, "cred", "throws") EXCEPT !.st = "nocred"]]
       \/ \E status \in Statuses : tasks' = [tasks EXCEPT ![b] = AfterResponse(@, "cred", status)]
    /\ UNCHANGED <<cacheVars, pageVars>>

\* fetch(url) without credentials settles.
BgNoCred(b) ==
    /\ tasks[b].kind = "bg" /\ tasks[b].st = "nocred"
    /\ \/ tasks' = [tasks EXCEPT ![b] = BgCatch(BgLog(@, "nocred", "throws"), "Failed to fetch")]
       \/ \E status \in Statuses : tasks' = [tasks EXCEPT ![b] = AfterResponse(@, "nocred", status)]
    /\ UNCHANGED <<cacheVars, pageVars>>

\* fetch(altUrl, {credentials: 'include'}) settles.
BgAlt(b) ==
    /\ tasks[b].kind = "bg" /\ tasks[b].st = "alt"
    /\ \/ tasks' = [tasks EXCEPT ![b] = BgCatch(BgLog(@, "alt", "throws"), "Failed to fetch")]
       \/ \E status \in Statuses : tasks' = [tasks EXCEPT ![b] = AfterAlt(@, status)]
    /\ UNCHANGED <<cacheVars, pageVars>>

\* resp.blob() settles, with a body that may be empty (blob.size = 0); on
\* success the FileReader is started.
BgBlob(b) ==
    /\ tasks[b].kind = "bg" /\ tasks[b].st = "blob"
    /\ \/ tasks' = [tasks EXCEPT ![b] = BgCatch(BgLog(@, "blob", "throws"), "body error")]
       \/ \E type \in BlobTypes, empty \in BOOLEAN :
             tasks' = [tasks EXCEPT ![b] =
                 [BgLog(@, "blob", "ok") EXCEPT
                     !.st = "read",
                     !.blob = [Blob(tasks[b].src, Null, "bg", type) EXCEPT !.empty = empty]]]
    /\ UNCHANGED <<cacheVars, pageVars>>

BgRead(b) ==
    /\ tasks[b].kind = "bg" /\ tasks[b].st = "read"
    /\ \E ok \in BOOLEAN : tasks' = [tasks EXCEPT ![b] = AfterRead(@, ok)]
    /\ UNCHANGED <<cacheVars, pageVars>>

\* The worker is stopped before the handler has answered: the port closes.
BgLost(b) ==
    /\ tasks[b].kind = "bg" /\ tasks[b].st \notin {"done"}
    /\ tasks' = [tasks EXCEPT ![b] = [@ EXCEPT !.st = "done", !.out = "lost"]]
    /\ UNCHANGED <<cacheVars, pageVars>>

\* The sendMessage callback of strategy B runs with the first response the
\* handler sent (later sendResponse calls on the same port are ignored), or
\* with lastError when the port closed unanswered.  On a success response
\* fetch(resp.dataUrl).then(r => r.blob()) settles (lines 149-152): it
\* rejects for a null dataUrl and for the "data:" read from an empty body;
\* for any other data URL it resolves with a blob of its type, or rejects.
ReplyB(t) ==
    /\ tasks[t].st = "B"
    /\ \E b \in BgTasks :
          /\ tasks[b].st = "done"
          /\ LET lost == tasks[b].resp = <<>>
                 r == tasks[b].resp[1]
                 success == ~lost /\ r.success
                 data == IF success THEN r.dataUrl ELSE NoBlob
             IN \E convOk \in (IF data.empty THEN {FALSE} ELSE BOOLEAN) :
                   tasks' = [tasks EXCEPT ![t] =
                       Settle(@, "B", fetchViaBackground(tasks[t].url, lost, ~lost, success,
                                                         data.type, convOk))]
    /\ UNCHANGED <<cacheVars, pageVars>>

GmUrl == <<"G", "c", "=", "s", "0", "-", "n", "o", "-", "g", "m">>

InitBg ==
    /\ cachedBlob = NoBlob
    /\ cachedUrl = NoUrl
    /\ targetImgElement = Null
    /\ path = "/"
    /\ lastPath = path
    /\ navTimers = 0
    /\ focused = TRUE
    /\ \E el \in RefElements, url \in (RefUrls \ {NoUrl}) \cup {GmUrl} :
          tasks = [t \in Slots |-> IF t = 1 THEN FetchStart(NewTask("fetch", el, url))
                                   ELSE IdleTask]

NextBg ==
    \/ \E t \in Slots : SettleA(t)
    \/ \E t \in Slots : BgReceive(t)
    \/ \E b \in Slots : BgCred(b)
    \/ \E b \in Slots : BgNoCred(b)
    \/ \E b \in Slots : BgAlt(b)
    \/ \E b \in Slots : BgBlob(b)
    \/ \E b \in Slots : BgRead(b)
    \/ \E b \in Slots : BgLost(b)
    \/ \E t \in Slots : ReplyB(t)
    \/ \E t \in Slots : SettleC(t)

SpecBg == InitBg /\ [][NextBg]_vars

(***************************************************************************)
(* getUrlFromElement on an <img> whose src is any short string: the call  *)
(* of upgradeUrl on its own.                                              *)
(***************************************************************************)
MaxUrlLen == 4

UrlChars == {"G", "=", "w", "s", "4", "?", LS}

SrcStrings == UNION {[1..n -> UrlChars] : n \in 1..MaxUrlLen}

\* upgradeUrl(imgEl.src) returns: src is the argument, url the result.
UpgradeCall(t) ==
    /\ tasks[t].kind = "upgrade" /\ tasks[t].st = "call"
    /\ tasks' = [tasks EXCEPT ![t] = [@ EXCEPT !.st = "done", !.url = upgradeUrl(tasks[t].src)]]
    /\ UNCHANGED <<cacheVars, pageVars>>

InitUrl ==
    /\ cachedBlob = NoBlob
    /\ cachedUrl = NoUrl
    /\ targetImgElement = Null
    /\ path = "/"
    /\ lastPath = path
    /\ navTimers = 0
    /\ focused = TRUE
    /\ \E src \in SrcStrings :
          tasks = [t \in Slots |-> IF t = 1 THEN [IdleTask EXCEPT !.kind = "upgrade",
                                                                  !.st = "call", !.src = src]
                                   ELSE IdleTask]

NextUrl == \E t \in Slots : UpgradeCall(t)

SpecUrl == InitUrl /\ [][NextUrl]_vars

(***************************************************************************)
(* Properties.                                                            *)
(***************************************************************************)
InFlight == {"A", "B", "C", "png"}

Prefetching(task) == task.kind = "prefetch" /\ task.st \in InFlight

\* The slot is empty or holds bytes acquired for the stored key.
SlotCurrent(blob, url) == blob = NoBlob \/ blob.for = url

\* C1: while a prefetch is in flight for a key that is no longer the
\* stored key (a newer target's prefetch has started), the slot is empty or
\* holds the newer target's bytes, and when the older prefetch completes it
\* leaves the slot as it is: its result is discarded.
C1_StaleFetchDiscarded ==
    [][\A t \in Slots :
         (Prefetching(tasks[t]) /\ tasks[t].url # cachedUrl) =>
             /\ SlotCurrent(cachedBlob, cachedUrl)
             /\ SlotCurrent(cachedBlob', cachedUrl')
             /\ tasks'[t].st = "done" =>
                    /\ cachedBlob' = cachedBlob
                    /\ tasks'[t].out \in {"discarded", "failed"}]_vars

\* An older target's prefetch has completed late and was discarded while
\* the slot holds the newer target's bytes.
C1_Witness ==
    \E t \in Slots :
        /\ tasks[t].kind = "prefetch" /\ tasks[t].st = "done"
        /\ tasks[t].out = "discarded"
        /\ tasks[t].url # cachedUrl
        /\ cachedBlob # NoBlob /\ cachedBlob.for = cachedUrl

\* C2: the step that starts a prefetch empties the slot, stores the new
\* key and element and starts the first strategy, all at once; and while
\* the prefetch for the stored key is in flight the slot holds no bytes of
\* another key.
C2_InvalidateBeforeFetch ==
    [][\A t \in Slots :
         /\ (Prefetching(tasks'[t]) /\ ~Prefetching(tasks[t])) =>
                /\ cachedBlob' = NoBlob
                /\ cachedUrl' = tasks'[t].url
                /\ targetImgElement' = tasks'[t].imgEl
                /\ Len(tasks'[t].trace) = 1
         /\ (Prefetching(tasks'[t]) /\ tasks'[t].url = cachedUrl') =>
                SlotCurrent(cachedBlob', tasks'[t].url)]_vars

\* The new target's prefetch is in flight over an emptied slot, after the
\* previous target's bytes had been cached.
C2_Witness ==
    \E t, u \in Slots :
        /\ Prefetching(tasks[t]) /\ tasks[t].url = cachedUrl
        /\ cachedBlob = NoBlob
        /\ tasks[u].kind = "prefetch" /\ tasks[u].st = "done"
        /\ tasks[u].out = "cached" /\ tasks[u].url # cachedUrl

\* The source a delivery is for: the right-clicked image when the message
\* names one, else the photo on display.
DeliveryTarget(task) ==
    IF task.kind = "ctx" /\ task.src # NoUrl THEN upgradeUrl(task.src)
    ELSE DisplayedUrl(path)

\* C3: a delivery takes the cached bytes only when the stored key is the
\* key of the source the delivery is for.
C3_CacheHitOnlyForTarget ==
    [][\A t \in Slots :
         (/\ tasks'[t].mode = "eager"
          /\ tasks[t].mode # "eager"
          /\ DeliveryTarget(tasks'[t]) # NoUrl) =>
             cachedUrl = DeliveryTarget(tasks'[t])]_vars

\* The strategies that apply to a reference, in priority order.
Applicable(imgEl, url) ==
    (IF imgEl # Null THEN <<"A">> ELSE <<>>) \o (IF url # NoUrl THEN <<"B", "C">> ELSE <<>>)

\* The trace is a prefix of start/fail pairs over the applicable
\* strategies in order, ended at most by one success.
InOrder(task) ==
    LET app == Applicable(task.imgEl, task.url)
        tr == task.trace
    IN /\ Len(tr) <= 2 * Len(app)
       /\ \A i \in 1..Len(tr) :
             /\ i <= 2 * Len(app) => tr[i].m = app[(i + 1) \div 2]
             /\ i % 2 = 1 => tr[i].ev = "start"
             /\ i % 2 = 0 => tr[i].ev \in {"ok", "fail"}
             /\ tr[i].ev = "ok" => i = Len(tr)
       /\ task.st \in {"A", "B", "C"} => Len(tr) > 0 /\ tr[Len(tr)] = Ev(task.st, "start")
       /\ task.st = "returned" =>
             /\ Len(tr) > 0
             /\ tr[Len(tr)].ev = "ok"
             /\ task.blob.via = tr[Len(tr)].m
       /\ task.st = "threw" => \A i \in 1..Len(tr) : tr[i].ev # "ok"

\* C4: the strategies run in the order A, B, C over those that apply, each
\* started only when the one before has failed, none after a success, and
\* the blob returned is the succeeding strategy's.
C4_FixedOrder == \A t \in Slots : InOrder(tasks[t])

\* A and B failed and C delivered the blob.
C4_Witness ==
    \E t \in Slots :
        /\ tasks[t].st = "returned" /\ tasks[t].blob.via = "C"
        /\ tasks[t].imgEl # Null /\ Len(tasks[t].trace) = 6

\* C5: with an element and no URL only strategy A ever runs: B (the
\* message to the background worker) and C are never started.
C5_ElementOnly ==
    \A t \in Slots :
        (tasks[t].imgEl # Null /\ tasks[t].url = NoUrl) =>
            /\ \A i \in 1..Len(tasks[t].trace) : tasks[t].trace[i].m = "A"
            /\ tasks[t].st \in {"A", "returned", "threw"}
            /\ tasks[t].st = "returned" => tasks[t].blob.via = "A"

\* A failed for an element-only reference and the call threw.
C5_Witness ==
    \E t \in Slots :
        /\ tasks[t].imgEl # Null /\ tasks[t].url = NoUrl
        /\ tasks[t].st = "threw"
        /\ tasks[t].trace = <<Ev("A", "start"), Ev("A", "fail")>>

\* C6: with a URL and no element A is never attempted, B is started first
\* and C is started only after B has failed.
C6_UrlOnly ==
    \A t \in Slots :
        (tasks[t].imgEl = Null /\ tasks[t].url # NoUrl) =>
            LET tr == tasks[t].trace
            IN /\ \A i \in 1..Len(tr) : tr[i].m # "A"
               /\ Len(tr) > 0 /\ tr[1] = Ev("B", "start")
               /\ \A i \in 1..Len(tr) :
                     tr[i] = Ev("C", "start") => \E j \in 1..(i - 1) : tr[j] = Ev("B", "fail")

\* C is running for a URL-only reference.
C6_Witness ==
    \E t \in Slots :
        tasks[t].imgEl = Null /\ tasks[t].url # NoUrl /\ tasks[t].st = "C"

\* C7: the call throws only when every applicable strategy has failed,
\* and then with the one aggregate error; no strategy's own error reaches
\* the caller.
C7_AggregateFailure ==
    \A t \in Slots :
        /\ tasks[t].st = "threw" =>
              /\ tasks[t].err = AllFailed
              /\ Len(tasks[t].trace) = 2 * Len(Applicable(tasks[t].imgEl, tasks[t].url))
        /\ tasks[t].st # "threw" => tasks[t].err = "none"

\* All three strategies failed for a reference with element and URL.
C7_Witness ==
    \E t \in Slots :
        /\ tasks[t].st = "threw" /\ tasks[t].err = AllFailed
        /\ tasks[t].imgEl # Null /\ tasks[t].url # NoUrl
        /\ Len(tasks[t].trace) = 6

\* C8: a keydown handler in lazy mode has called navigator.clipboard.write
\* exactly once, in the step that entered it, and the acquisition runs with
\* the write already called (pending, or rejected ahead of the payload).
C8_WriteInGestureTurn ==
    \A t \in Slots :
        (tasks[t].kind = "keydown" /\ tasks[t].mode \in {"lazy", "detached"}) =>
            tasks[t].writes = 1 /\ tasks[t].fetches = 1

\* The payload's first strategy is in flight and the write is pending.
C8_Witness ==
    \E t \in Slots :
        /\ tasks[t].kind = "keydown" /\ tasks[t].mode = "lazy"
        /\ tasks[t].st = "A" /\ tasks[t].writes = 1

\* C9 as stated: once the poll at 2000 ms has seen no focus, the wait
\* yields false.
C9_FalseAfterBound ==
    [][\A t \in Slots :
         (/\ tasks[t].st = "focuswait"
          /\ tasks[t].elapsed = FocusTimeout
          /\ tasks'[t] # tasks[t]) => tasks'[t].out = "timeout"]_vars

\* C9 (amended): a poll that sees no focus more than 2000 ms after the wait
\* began ends the handler with {ok: false} and the error toast, with no
\* fetchImageBlob call and no clipboard write; an earlier poll without
\* focus keeps waiting.
C9_TimeoutReportsFailure ==
    [][\A t \in Slots :
         (tasks[t].st = "focuswait" /\ ~focused /\ tasks'[t] # tasks[t]) =>
             IF tasks'[t].elapsed > FocusTimeout
             THEN /\ tasks'[t].st = "done"
                  /\ tasks'[t].out = "timeout"
                  /\ tasks'[t].toast = "nofocus"
                  /\ tasks'[t].resp = <<FALSE>>
                  /\ tasks'[t].fetches = 0
                  /\ tasks'[t].writes = 0
             ELSE tasks'[t].st = "focuswait"]_vars

\* The wait timed out and the handler answered {ok: false}.
C9_Witness ==
    \E t \in Slots :
        /\ tasks[t].kind = "ctx" /\ tasks[t].st = "done"
        /\ tasks[t].out = "timeout" /\ tasks[t].elapsed > FocusTimeout
        /\ tasks[t].resp = <<FALSE>>
        /\ tasks[t].writes = 0 /\ tasks[t].fetches = 0

\* C10: a poll that sees focus ends the wait with true and the handler
\* goes on: it takes the cached blob and calls the write, or calls
\* fetchImageBlob.
C10_FocusSeenProceeds ==
    [][\A t \in Slots :
         (tasks[t].st = "focuswait" /\ focused /\ tasks'[t] # tasks[t]) =>
             /\ tasks'[t].st # "focuswait"
             /\ tasks'[t].out # "timeout"
             /\ tasks'[t].toast # "nofocus"
             /\ tasks'[t].fetches + tasks'[t].writes = 1]_vars

\* Focus was seen after at least one poll and the write has been called.
C10_Witness ==
    \E t \in Slots :
        /\ tasks[t].kind = "ctx" /\ tasks[t].out = "focus"
        /\ tasks[t].st = "write" /\ tasks[t].writes = 1

\* A delivery handler (keydown or context menu) that has not returned.
Pending(t) == t \in Delivering /\ ~Detached(tasks[t])

FinalToasts == {"copied", "error", "noimage", "nofocus"}

\* The handler in slot t has returned and reported: a final toast, and for
\* a context-menu message one {ok} response.
Reported(t) ==
    /\ tasks[t].kind \in {"keydown", "ctx"}
    /\ tasks[t].st = "done" \/ Detached(tasks[t])
    /\ tasks[t].toast \in FinalToasts
    /\ tasks[t].kind = "ctx" => Len(tasks[t].resp) = 1

\* C11: every context-menu message and every handled Cmd+C ends reported:
\* a pending handler eventually returns with a final toast shown and, for
\* the message, exactly one {ok} response sent; no response is sent before
\* the handler returns and none twice; and no promise the trigger started
\* ends in an unhandled rejection.
C11_EveryTriggerReported ==
    /\ \A t \in Slots : Pending(t) ~> Reported(t)
    /\ [](\A t \in Slots :
            /\ Pending(t) => tasks[t].resp = <<>>
            /\ (tasks[t].kind \in {"keydown", "ctx"} /\ ~Pending(t)) => Reported(t)
            /\ ~tasks[t].unhandled)

\* C12: a trigger calls the clipboard write at most once and fetchImageBlob
\* at most once; when the write settles the handler returns in that step
\* with no further write or fetch, and a rejected write is reported as a
\* failure carrying the error (error toast, and {ok: false} for a message).
\* A promise-based write rejected ahead of its payload is reported the same
\* way, and the payload it leaves behind calls and reports nothing more.
C12_NoRetry ==
    [][\A t \in Slots :
         tasks[t].kind \in {"keydown", "ctx"} =>
             /\ tasks[t].writes <= 1 /\ tasks'[t].writes <= 1
             /\ tasks[t].fetches <= 1 /\ tasks'[t].fetches <= 1
             /\ (tasks[t].st = "write" /\ tasks'[t] # tasks[t]) =>
                    /\ tasks'[t].st = "done"
                    /\ tasks'[t].writes = tasks[t].writes
                    /\ tasks'[t].fetches = tasks[t].fetches
                    /\ tasks'[t].out = "failed" =>
                           /\ tasks'[t].toast = "error"
                           /\ tasks'[t].err # "none"
                           /\ tasks[t].kind = "ctx" => tasks'[t].resp = <<FALSE>>
             /\ (PayloadPending(tasks[t]) /\ Detached(tasks'[t])) =>
                    /\ tasks'[t].out = "failed"
                    /\ tasks'[t].toast = "error"
                    /\ tasks'[t].err # "none"
                    /\ tasks'[t].writes = tasks[t].writes
                    /\ tasks'[t].fetches = tasks[t].fetches
             /\ Detached(tasks[t]) =>
                    /\ tasks'[t].writes = tasks[t].writes
                    /\ tasks'[t].fetches = tasks[t].fetches
                    /\ tasks'[t].toast = tasks[t].toast
                    /\ tasks'[t].out = tasks[t].out]_vars

\* A cached blob was written on Cmd+C, the write was rejected, and the
\* handler returned the failure after that one call and no fetch.
C12_Witness ==
    \E t \in Slots :
        /\ tasks[t].kind = "keydown" /\ tasks[t].st = "done"
        /\ tasks[t].out = "failed" /\ tasks[t].err = "NotAllowedError"
        /\ tasks[t].writes = 1 /\ tasks[t].fetches = 0

\* C13: when writeToClipboard is entered with a blob in hand, a focused
\* document has the write called in that same step; an unfocused one has
\* window.focus() called and the settle timer armed with no write yet, and
\* the write is called by the step in which that timer fires.
C13_FocusSettleBeforeWrite ==
    [][\A t \in Slots :
         /\ (/\ tasks'[t].mode \in {"eager", "fetch"}
             /\ tasks'[t].st \in {"settle", "write"}
             /\ tasks[t].st \notin {"settle", "write"}) =>
                IF focused THEN tasks'[t].st = "write" /\ tasks'[t].writes = 1
                ELSE tasks'[t].st = "settle" /\ tasks'[t].writes = 0
         /\ tasks[t].st = "settle" =>
                /\ tasks[t].writes = 0
                /\ tasks'[t] # tasks[t] =>
                       tasks'[t].st = "write" /\ tasks'[t].writes = 1]_vars

\* Cmd+C with a cached blob on an unfocused document: the handler waits
\* on the settle timer and has not called the write.
C13_Witness ==
    \E t \in Slots :
        /\ tasks[t].kind = "keydown" /\ tasks[t].mode = "eager"
        /\ tasks[t].st = "settle" /\ tasks[t].writes = 0
        /\ tasks[t].blob = cachedBlob

HasEv(tr, m, ev) == \E i \in 1..Len(tr) : tr[i] = Ev(m, ev)

\* The requested URL was answered 403.
Denied(tr) == HasEv(tr, "cred", "403") \/ HasEv(tr, "nocred", "403")

Requesters == {t \in Slots : tasks[t].kind = "fetch"}

\* The variant's body as the handler read it.
VariantData(b) ==
    [Blob(AltUrl(tasks[b].url), Null, "bg", tasks[b].blob.type) EXCEPT
        !.empty = tasks[b].blob.empty]

\* C14 as stated: after a 403 for the requested URL, a variant answered
\* with a success status makes the handler respond success with the
\* variant's data, strategy B resolves with those bytes and C is not
\* started; a variant answered with a non-success status makes the handler
\* respond failure and strategy B fail.
C14_SuccessAfter403 ==
    \A b \in BgTasks, t \in Requesters :
        LET tr == tasks[b].trace
        IN /\ (Denied(tr) /\ HasEv(tr, "alt", "200")) =>
                 /\ tasks[b].st = "done" => tasks[b].resp = <<Success(VariantData(b))>>
                 /\ tasks[t].st # "B" =>
                        /\ tasks[t].st = "returned"
                        /\ tasks[t].blob.via = "B"
                        /\ ~HasEv(tasks[t].trace, "C", "start")
           /\ (Denied(tr) /\ (HasEv(tr, "alt", "403") \/ HasEv(tr, "alt", "404"))) =>
                 /\ tasks[b].resp = <<Failure("HTTP 403 on both URL variants")>>
                 /\ tasks[t].st # "B" => HasEv(tasks[t].trace, "B", "fail")

\* C14, amended: after a 403 for the requested URL and a success status for
\* the variant, a body that is read and encoded makes the handler respond
\* success with the variant's data; strategy B then resolves with a blob of
\* that data and C is not started when the data URL converts back to a
\* blob, which it never does for an empty body; when the conversion is
\* rejected, or the body is not read or not encoded, strategy B fails and C
\* is started.  A variant answered with a non-success status makes the
\* handler respond failure and strategy B fail.
C14_VariantAfter403 ==
    \A b \in BgTasks, t \in Requesters :
        LET tr == tasks[b].trace
            replied == tasks[t].st # "B"
            resolved == HasEv(tasks[t].trace, "B", "ok")
        IN /\ (Denied(tr) /\ HasEv(tr, "alt", "200") /\ HasEv(tr, "read", "ok")) =>
                 /\ tasks[b].resp = <<Success(VariantData(b))>>
                 /\ (replied /\ resolved) =>
                        /\ ~tasks[b].blob.empty
                        /\ tasks[t].st = "returned"
                        /\ tasks[t].blob.via = "B"
                        /\ tasks[t].blob.type = tasks[b].blob.type
                        /\ ~HasEv(tasks[t].trace, "C", "start")
                 /\ (replied /\ tasks[b].blob.empty) => ~resolved
           /\ (Denied(tr) /\ HasEv(tr, "alt", "200") /\ replied /\ ~resolved) =>
                 /\ HasEv(tasks[t].trace, "B", "fail")
                 /\ HasEv(tasks[t].trace, "C", "start")
           /\ (Denied(tr) /\ (HasEv(tr, "alt", "403") \/ HasEv(tr, "alt", "404"))) =>
                 /\ tasks[b].resp = <<Failure("HTTP 403 on both URL variants")>>
                 /\ replied => HasEv(tasks[t].trace, "B", "fail")

\* The requested -no-gm URL got 403, its -no variant 200, and the caller
\* has the blob from strategy B.
C14_Witness ==
    \E b \in BgTasks, t \in Requesters :
        /\ Denied(tasks[b].trace) /\ HasEv(tasks[b].trace, "alt", "200")
        /\ tasks[b].url = GmUrl /\ tasks[b].src # tasks[b].url
        /\ tasks[t].st = "returned" /\ tasks[t].blob.via = "B"

\* C18: the handler calls sendResponse exactly once for a request, and a
\* success response always carries the image data.
C18_ExactlyOneResponse ==
    \A b \in BgTasks :
        /\ Len(tasks[b].resp) <= 1
        /\ (tasks[b].st = "done" /\ tasks[b].out # "lost") => Len(tasks[b].resp) = 1
        /\ \A i \in 1..Len(tasks[b].resp) :
              tasks[b].resp[i].success => tasks[b].resp[i].dataUrl # NoBlob

\* C15: when a delivery's own fetch for the stored key has succeeded and
\* its PNG is in hand, the cache slot holds that key's bytes.
C15_OnDemandFetchCached ==
    [][\A t \in Slots :
         (/\ tasks[t].kind \in {"keydown", "ctx"}
          /\ tasks[t].st = "png"
          /\ tasks'[t].st \in {"write", "settle"}
          /\ tasks'[t].blob # NoBlob
          /\ tasks[t].url = cachedUrl) =>
             cachedBlob' # NoBlob /\ cachedBlob'.for = cachedUrl']_vars

\* The URL holds a size suffix: =w or =s followed by a digit.
HasSizeSuffix(s) == SizeMatches(s, "w") # {} \/ SizeMatches(s, "s") # {}

\* C16: for a URL with no size suffix upgradeUrl returns the URL with
\* =w2048-h2048-no appended.
C16_DefaultSuffixAppended ==
    \A t \in Slots :
        (tasks[t].kind = "upgrade" /\ tasks[t].st = "done" /\ ~HasSizeSuffix(tasks[t].src)) =>
            tasks[t].url = tasks[t].src \o SuffixW

\* The task holds a payload for navigator.clipboard.write.
HasPayload(task) == task.st \in {"write", "settle"} /\ task.blob # NoBlob

\* C17: a blob in the cache slot or in hand for the clipboard write is
\* PNG-typed and came out of ensurePng (directly, or as the cached blob a
\* prefetch stored after ensurePng); ensurePng hands a PNG input back as
\* the same blob and re-encodes any other.
C17_PayloadIsPng ==
    [][/\ cachedBlob # NoBlob => cachedBlob.type = Png
       /\ (cachedBlob' # cachedBlob /\ cachedBlob' # NoBlob) =>
              \E t \in Slots :
                  /\ tasks[t].kind = "prefetch" /\ tasks[t].st = "png"
                  /\ cachedBlob'.type = Png
                  /\ tasks[t].blob.type = Png => cachedBlob' = tasks[t].blob
                  /\ tasks[t].blob.type # Png => cachedBlob'.enc = "reenc"
       /\ \A t \in Slots :
             /\ HasPayload(tasks[t]) => tasks[t].blob.type = Png
             /\ (HasPayload(tasks'[t]) /\ ~HasPayload(tasks[t])) =>
                    /\ tasks'[t].blob.type = Png
                    /\ \/ tasks'[t].mode = "eager" /\ tasks'[t].blob = cachedBlob
                       \/ /\ tasks[t].st = "png"
                          /\ tasks[t].blob.type = Png => tasks'[t].blob = tasks[t].blob
                          /\ tasks[t].blob.type # Png => tasks'[t].blob.enc = "reenc"]_vars

\* A JPEG fetched through the background worker was re-encoded and is in
\* hand for the write of a context-menu copy.
C17_Witness ==
    \E t \in Slots :
        /\ tasks[t].kind = "ctx" /\ tasks[t].st = "write"
        /\ tasks[t].blob.via = "B" /\ tasks[t].blob.enc = "reenc"
        /\ tasks[t].blob.type = Png

Waiting(t) == tasks[t].kind = "ctx" /\ tasks[t].st = "focuswait"

\* C19: the focus wait ends, whatever the focus does.  Each poll either
\* sees focus and resolves true, or sees none after more than 2000 ms and
\* resolves false, or leaves the wait unresolved with more time elapsed;
\* an unresolved wait has at most 2000 ms on its clock; and a handler past
\* its wait is never polled again.
C19_FocusWaitTerminates ==
    /\ \A t \in Slots : Waiting(t) ~> ~Waiting(t)
    /\ [](\A t \in Slots :
            Waiting(t) => tasks[t].elapsed <= FocusTimeout /\ tasks[t].out = "none")
    /\ [][\A t \in Slots :
            /\ (Waiting(t) /\ tasks'[t] # tasks[t]) =>
                   IF focused THEN ~Waiting(t)' /\ tasks'[t].out # "timeout"
                   ELSE IF tasks'[t].elapsed > FocusTimeout
                   THEN ~Waiting(t)' /\ tasks'[t].out = "timeout"
                   ELSE Waiting(t)' /\ tasks'[t].elapsed >= tasks[t].elapsed + PollInterval
            /\ (Pending(t) /\ ~Waiting(t)) => ~Waiting(t)']_vars

\* The wait resolved false at the 2050 ms poll; focus came back later and
\* nothing polls it any more.
C19_Witness ==
    \E t \in Slots :
        /\ tasks[t].kind = "ctx" /\ tasks[t].st = "done" /\ tasks[t].out = "timeout"
        /\ tasks[t].elapsed = FocusTimeout + PollInterval
        /\ focused
        /\ ~ENABLED Poll(t)

\* C20: a non-empty slot holds bytes that were acquired for the stored
\* key, by a prefetch started for that key.
C20_SlotMatchesKey ==
    cachedBlob # NoBlob =>
        /\ cachedUrl # NoUrl
        /\ cachedBlob.for = cachedUrl

\* The slot holds the newer target's bytes while the older target's
\* prefetch is still in flight.
C20_Witness ==
    /\ cachedBlob # NoBlob
    /\ cachedBlob.for = cachedUrl
    /\ \E t \in Slots : Prefetching(tasks[t]) /\ tasks[t].url # cachedUrl

\* prefetch is about to be called for the stored key with the slot filled.
SameKeyCached(imgEl) ==
    imgEl # Null /\ UrlFrom[imgEl] = cachedUrl /\ cachedBlob # NoBlob

\* C21: prefetch for the stored key with the slot filled starts no fetch
\* and leaves cachedBlob, cachedUrl and targetImgElement as they are: no
\* step starts a prefetch for the stored key over a filled slot, and the
\* navigation timer firing for that key changes neither cache nor tasks.
\* The cache changes only in a step of a prefetch; a step of a keydown or
\* context-menu handler never changes it.
C21_CacheReadOnly ==
    [][/\ (navTimers' < navTimers /\ SameKeyCached(ImageFrom["body", path])) =>
              UNCHANGED <<cacheVars, tasks>>
       /\ \A t \in Slots :
             /\ (cachedBlob # NoBlob /\ Prefetching(tasks'[t]) /\ ~Prefetching(tasks[t])) =>
                    tasks'[t].url # cachedUrl
             /\ (tasks'[t] # tasks[t] /\ tasks'[t].kind \in {"keydown", "ctx"}) =>
                    UNCHANGED cacheVars
       /\ cacheVars' # cacheVars =>
              \E t \in Slots : tasks'[t] # tasks[t] /\ tasks'[t].kind = "prefetch"]_vars

\* A Cmd+C has copied the cached blob, the slot still holds it, and the
\* navigation timer is about to call prefetch for the same key.
C21_Witness ==
    /\ cachedBlob # NoBlob
    /\ navTimers > 0
    /\ SameKeyCached(ImageFrom["body", path])
    /\ \E t \in Slots :
          /\ tasks[t].kind = "keydown" /\ tasks[t].st = "done"
          /\ tasks[t].out = "copied" /\ tasks[t].fetches = 0

=============================================================================
